---- MODULE Spec2Model ----
\* Membership program (src/lib.rs): the Borsh wire codec, the three instruction
\* handlers and the invocation boundary, as a state machine over the account
\* data buffers.
EXTENDS Integers, Sequences, FiniteSets, TLC

\* ------------------------------------------------------------------ bounds

\* Registrations are explored while the loaded member_count is below MaxCount.
MaxCount == 2

\* ------------------------------------------------------------- u64 and bytes

\* A u64 is held as four 16-bit limbs, least significant first.
LIMB == 256 * 256

U64(n) == <<n % LIMB, (n \div LIMB) % LIMB, 0, 0>>

U64_MAX == <<LIMB - 1, LIMB - 1, LIMB - 1, LIMB - 1>>

\* u64::to_le_bytes: eight bytes, least significant first.
to_le_bytes(x) ==
    <<x[1] % 256, x[1] \div 256, x[2] % 256, x[2] \div 256,
      x[3] % 256, x[3] \div 256, x[4] % 256, x[4] \div 256>>

\* u64::from_le_bytes
from_le_bytes(b) ==
    <<b[1] + 256 * b[2], b[3] + 256 * b[4], b[5] + 256 * b[6], b[7] + 256 * b[8]>>

\* u32 length prefix of a string, little endian.
u32_to_le_bytes(n) ==
    <<n % 256, (n \div 256) % 256, (n \div LIMB) % 256, (n \div (LIMB * 256)) % 256>>

\* The length prefix as a number; -1 stands for a length beyond any buffer of
\* the model (a prefix whose high byte is set).
u32_from_le_bytes(b) ==
    IF b[4] # 0 THEN -1 ELSE b[1] + 256 * b[2] + LIMB * b[3]

\* x + 1 on 64 bits, wrapping at 2^64 (the carry runs through the limbs).
wrapping_add_1(x) ==
    IF x[1] + 1 < LIMB THEN <<x[1] + 1, x[2], x[3], x[4]>>
    ELSE IF x[2] + 1 < LIMB THEN <<0, x[2] + 1, x[3], x[4]>>
    ELSE IF x[3] + 1 < LIMB THEN <<0, 0, x[3] + 1, x[4]>>
    ELSE IF x[4] + 1 < LIMB THEN <<0, 0, 0, x[4] + 1>>
    ELSE <<0, 0, 0, 0>>

\* a < b on u64
U64Less(a, b) ==
    \/ a[4] < b[4]
    \/ a[4] = b[4] /\ a[3] < b[3]
    \/ a[4] = b[4] /\ a[3] = b[3] /\ a[2] < b[2]
    \/ a[4] = b[4] /\ a[3] = b[3] /\ a[2] = b[2] /\ a[1] < b[1]

Zeros(n) == [i \in 1..n |-> 0]

\* ------------------------------------------------------------------ writer

\* io::Write for &mut [u8]: write_all copies as many bytes as fit at the
\* cursor, and fails when not all of them fit.
write_all(w, bytes) ==
    IF ~w.ok THEN w
    ELSE LET room == Len(w.buf) - w.pos
             amt == IF Len(bytes) <= room THEN Len(bytes) ELSE room
         IN [buf |-> [i \in 1..Len(w.buf) |->
                        IF i > w.pos /\ i <= w.pos + amt
                        THEN bytes[i - w.pos] ELSE w.buf[i]],
             pos |-> w.pos + amt,
             ok |-> amt = Len(bytes)]

Writer(buf) == [buf |-> buf, pos |-> 0, ok |-> TRUE]

\* ------------------------------------------------------------------ reader

\* Borsh deserialization reads from a cursor over a slice; ok = FALSE is the
\* io::Error of a short or invalid input.
Reader(buf) == [buf |-> buf, pos |-> 0, ok |-> TRUE]

Remaining(r) == Len(r.buf) - r.pos

Take(r, n) == [i \in 1..n |-> r.buf[r.pos + i]]

\* u64::deserialize
read_u64(r) ==
    IF r.ok /\ Remaining(r) >= 8
    THEN [r |-> [r EXCEPT !.pos = r.pos + 8], val |-> from_le_bytes(Take(r, 8))]
    ELSE [r |-> [r EXCEPT !.ok = FALSE], val |-> U64(0)]

\* bool::deserialize: one byte, 0 or 1; any other byte is an error.
read_bool(r) ==
    IF r.ok /\ Remaining(r) >= 1 /\ r.buf[r.pos + 1] \in {0, 1}
    THEN [r |-> [r EXCEPT !.pos = r.pos + 1], val |-> r.buf[r.pos + 1] = 1]
    ELSE [r |-> [r EXCEPT !.ok = FALSE], val |-> FALSE]

\* String::deserialize: u32 length, then that many bytes of UTF-8 (a byte
\* above 127 stands for an invalid sequence).
read_string(r) ==
    IF r.ok /\ Remaining(r) >= 4
    THEN LET n == u32_from_le_bytes(Take(r, 4))
             r1 == [r EXCEPT !.pos = r.pos + 4]
         IN IF n >= 0 /\ Remaining(r1) >= n /\ \A i \in 1..n : r1.buf[r1.pos + i] < 128
            THEN [r |-> [r1 EXCEPT !.pos = r1.pos + n], val |-> Take(r1, n)]
            ELSE [r |-> [r1 EXCEPT !.ok = FALSE], val |-> <<>>]
    ELSE [r |-> [r EXCEPT !.ok = FALSE], val |-> <<>>]

\* Pubkey::deserialize: 32 bytes.
read_pubkey(r) ==
    IF r.ok /\ Remaining(r) >= 32
    THEN [r |-> [r EXCEPT !.pos = r.pos + 32], val |-> Take(r, 32)]
    ELSE [r |-> [r EXCEPT !.ok = FALSE], val |-> Zeros(32)]

\* A decoder that stops after the last field and accepts bytes left over.
FieldsRead(r) == r.ok

\* try_from_slice's last step: every byte must have been read.
AllRead(r) == r.ok /\ Remaining(r) = 0

\* ----------------------------------------------------------------- records

\* Membership::serialize into a slice: member_count, then authority.
Membership_serialize(m, buf) ==
    write_all(write_all(Writer(buf), to_le_bytes(m.member_count)), m.authority)

\* Membership::try_from_slice
Membership_try_from_slice(buf) ==
    LET c == read_u64(Reader(buf))
        a == read_pubkey(c.r)
    IN [ok |-> AllRead(a.r),
        val |-> [member_count |-> c.val, authority |-> a.val]]

\* Member::serialize into a slice: id, name, is_ai, voting_power, pubkey, each
\* field written in turn until one does not fit.
Member_serialize(m, buf) ==
    LET w1 == write_all(Writer(buf), to_le_bytes(m.id))
        w2 == write_all(w1, u32_to_le_bytes(Len(m.name)))
        w3 == write_all(w2, m.name)
        w4 == write_all(w3, <<IF m.is_ai THEN 1 ELSE 0>>)
        w5 == write_all(w4, to_le_bytes(m.voting_power))
    IN write_all(w5, m.pubkey)

\* Member::try_from_slice
Member_try_from_slice(buf) ==
    LET i == read_u64(Reader(buf))
        n == read_string(i.r)
        b == read_bool(n.r)
        v == read_u64(b.r)
        k == read_pubkey(v.r)
    IN [ok |-> AllRead(k.r),
        val |-> [id |-> i.val, name |-> n.val, is_ai |-> b.val,
                 voting_power |-> v.val, pubkey |-> k.val]]

\* MembershipInstruction::try_from_slice: a one-byte variant index, then the
\* variant's fields; every byte must be read.
MembershipInstruction_try_from_slice(bytes) ==
    IF Len(bytes) = 0 THEN [ok |-> FALSE, val |-> [tag |-> "Initialize"]]
    ELSE LET r0 == [buf |-> bytes, pos |-> 1, ok |-> TRUE]
         IN CASE bytes[1] = 0 ->
                   [ok |-> AllRead(r0), val |-> [tag |-> "Initialize"]]
              [] bytes[1] = 1 ->
                   LET n == read_string(r0)
                       b == read_bool(n.r)
                       v == read_u64(b.r)
                   IN [ok |-> AllRead(v.r),
                       val |-> [tag |-> "RegisterMember", name |-> n.val,
                                is_ai |-> b.val, voting_power |-> v.val]]
              [] bytes[1] = 2 ->
                   LET v == read_u64(r0)
                   IN [ok |-> AllRead(v.r),
                       val |-> [tag |-> "UpdateVotingPower", voting_power |-> v.val]]
              [] OTHER -> [ok |-> FALSE, val |-> [tag |-> "Initialize"]]

\* ---------------------------------------------------------------- accounts

\* The accounts a caller can pass: two Membership state accounts, two Member
\* accounts and two wallets that hold no data.
Accounts == {"R", "R2", "M", "M2", "A", "B"}

\* AccountInfo.key: the 32-byte identity of each account.
Key(a) ==
    LET byte == CASE a = "A" -> 1 [] a = "B" -> 2 [] a = "R" -> 3
                  [] a = "R2" -> 4 [] a = "M" -> 5 [] OTHER -> 6
    IN [i \in 1..32 |-> byte]

\* The length of AccountInfo.data, fixed when the caller allocated the account:
\* R and R2 hold exactly a Membership (8 + 32), M exactly a Member whose name
\* has one byte (8 + 4 + 1 + 1 + 8 + 32), M2 exactly a Member whose name is
\* empty (8 + 4 + 1 + 8 + 32).
Capacity(a) ==
    CASE a \in {"R", "R2"} -> 8 + 32
      [] a = "M" -> 8 + 4 + 1 + 1 + 8 + 32
      [] a = "M2" -> 8 + 4 + 1 + 8 + 32
      [] OTHER -> 0

VARIABLES
    data,     \* AccountInfo.data of every account: the bytes the handlers read and write
    saved,    \* the account data as the ledger holds it between invocations
    pc,       \* "idle" between invocations, "returned" when process_instruction has returned
    call,     \* the invocation in progress: instruction_data and accounts
    result,   \* what process_instruction returned, and the step that failed
    inits,    \* history: successful Initialize invocations per account (2 = two or more)
    issued,   \* history: the ids written by successful RegisterMember per Membership account
    regOf     \* history: the Membership account each Member account was registered under

vars == <<data, saved, pc, call, result, inits, issued, regOf>>

\* ---------------------------------------------------------------- handlers

Return(code, stage, d) == [code |-> code, stage |-> stage, data |-> d]

\* The signer check of process_initialize.
initialize_signed(authority_account) == authority_account.is_signer

\* The record process_initialize builds.
new_membership(authority_account) ==
    [member_count |-> U64(0), authority |-> Key(authority_account.acct)]

\* An initialize that reports a missing account as a failed signer check.
process_initialize_missing_as_unauthorized(accounts, d) ==
    IF Len(accounts) < 2 THEN Return("NotAuthorized", "authority", d)
    ELSE LET membership_account == accounts[1].acct
             authority_account == accounts[2]
         IN IF ~initialize_signed(authority_account)
            THEN Return("NotAuthorized", "authority", d)
            ELSE LET w == Membership_serialize(new_membership(authority_account),
                                               d[membership_account])
                     d1 == [d EXCEPT ![membership_account] = w.buf]
                 IN IF ~w.ok THEN Return("BorshIoError", "save_membership", d1)
                    ELSE Return("Ok", "done", d1)

\* process_initialize
process_initialize(accounts, d) ==
    IF Len(accounts) < 2 THEN Return("NotEnoughAccountKeys", "accounts", d)
    ELSE LET membership_account == accounts[1].acct
             authority_account == accounts[2]
         IN IF ~initialize_signed(authority_account)
            THEN Return("NotAuthorized", "authority", d)
            ELSE LET w == Membership_serialize(new_membership(authority_account),
                                               d[membership_account])
                     d1 == [d EXCEPT ![membership_account] = w.buf]
                 IN IF ~w.ok THEN Return("BorshIoError", "save_membership", d1)
                    ELSE Return("Ok", "done", d1)

\* An authority check that forgets to compare the key with the stored authority.
authorized_any_signer(authority_account, membership) ==
    authority_account.is_signer

\* The authority check of process_register_member and
\* process_update_voting_power.
authorized(authority_account, membership) ==
    ~(\/ ~authority_account.is_signer
      \/ Key(authority_account.acct) # membership.authority)

\* The Member that process_register_member builds.
new_member(membership, name, is_ai, voting_power, member_account) ==
    [id |-> membership.member_count,
     name |-> name,
     is_ai |-> is_ai,
     voting_power |-> voting_power,
     pubkey |-> Key(member_account)]

\* A registration that forgets the increment.
keep_member_count(membership) == membership

\* An increment that rebuilds the record and leaves the authority at its default.
increment_member_count_default_authority(membership) ==
    [member_count |-> wrapping_add_1(membership.member_count), authority |-> Zeros(32)]

\* membership.member_count += 1, in a build that lets the addition wrap.
increment_member_count(membership) ==
    [membership EXCEPT !.member_count = wrapping_add_1(membership.member_count)]

\* The two writes in the other order: the Membership first, then the Member.
save_states_membership_first(member, membership, member_account, membership_account, d) ==
    LET w2 == Membership_serialize(membership, d[membership_account])
        d1 == [d EXCEPT ![membership_account] = w2.buf]
        w1 == Member_serialize(member, d1[member_account])
        d2 == [d1 EXCEPT ![member_account] = w1.buf]
    IN IF ~w2.ok THEN Return("BorshIoError", "save_membership", d1)
       ELSE IF ~w1.ok THEN Return("BorshIoError", "save_member", d2)
       ELSE Return("Ok", "done", d2)

\* The Member is saved and the Membership is not written back.
save_states_member_only(member, membership, member_account, membership_account, d) ==
    LET w1 == Member_serialize(member, d[member_account])
        d1 == [d EXCEPT ![member_account] = w1.buf]
    IN IF ~w1.ok THEN Return("BorshIoError", "save_member", d1)
       ELSE Return("Ok", "done", d1)

\* "Save states": the Member into the member account, then the Membership
\* into the membership account; the first write that fails ends the handler.
save_states(member, membership, member_account, membership_account, d) ==
    LET w1 == Member_serialize(member, d[member_account])
        d1 == [d EXCEPT ![member_account] = w1.buf]
        w2 == Membership_serialize(membership, d1[membership_account])
        d2 == [d1 EXCEPT ![membership_account] = w2.buf]
    IN IF ~w1.ok THEN Return("BorshIoError", "save_member", d1)
       ELSE IF ~w2.ok THEN Return("BorshIoError", "save_membership", d2)
       ELSE Return("Ok", "done", d2)

\* process_register_member; overflow_checks says whether the build traps the
\* overflow of member_count += 1 or lets it wrap.
process_register_member(accounts, name, is_ai, voting_power, d, overflow_checks) ==
    IF Len(accounts) < 3 THEN Return("NotEnoughAccountKeys", "accounts", d)
    ELSE LET membership_account == accounts[1].acct
             member_account == accounts[2].acct
             authority_account == accounts[3]
             loaded == Membership_try_from_slice(d[membership_account])
             membership == loaded.val
         IN IF ~loaded.ok THEN Return("BorshIoError", "load_membership", d)
            ELSE IF ~authorized(authority_account, membership)
            THEN Return("NotAuthorized", "authority", d)
            ELSE IF membership.member_count = U64_MAX /\ overflow_checks
            THEN Return("Panic", "increment", d)
            ELSE save_states(
                     new_member(membership, name, is_ai, voting_power, member_account),
                     increment_member_count(membership),
                     member_account, membership_account, d)

\* An update that also resets the entity classification.
set_voting_power_reset_is_ai(member, voting_power) ==
    [member EXCEPT !.voting_power = voting_power, !.is_ai = FALSE]

\* member.voting_power = voting_power
set_voting_power(member, voting_power) ==
    [member EXCEPT !.voting_power = voting_power]

\* An update that loads the member before it checks the authority.
process_update_voting_power_member_first(accounts, voting_power, d) ==
    IF Len(accounts) < 3 THEN Return("NotEnoughAccountKeys", "accounts", d)
    ELSE LET membership_account == accounts[1].acct
             member_account == accounts[2].acct
             authority_account == accounts[3]
             loaded == Membership_try_from_slice(d[membership_account])
             membership == loaded.val
             found == Member_try_from_slice(d[member_account])
             member == set_voting_power(found.val, voting_power)
             w == Member_serialize(member, d[member_account])
             d1 == [d EXCEPT ![member_account] = w.buf]
         IN IF ~loaded.ok THEN Return("BorshIoError", "load_membership", d)
            ELSE IF ~found.ok THEN Return("BorshIoError", "load_member", d)
            ELSE IF ~authorized(authority_account, membership)
            THEN Return("NotAuthorized", "authority", d)
            ELSE IF ~w.ok THEN Return("BorshIoError", "save_member", d1)
            ELSE Return("Ok", "done", d1)

\* process_update_voting_power
process_update_voting_power(accounts, voting_power, d) ==
    IF Len(accounts) < 3 THEN Return("NotEnoughAccountKeys", "accounts", d)
    ELSE LET membership_account == accounts[1].acct
             member_account == accounts[2].acct
             authority_account == accounts[3]
             loaded == Membership_try_from_slice(d[membership_account])
             membership == loaded.val
         IN IF ~loaded.ok THEN Return("BorshIoError", "load_membership", d)
            ELSE IF ~authorized(authority_account, membership)
            THEN Return("NotAuthorized", "authority", d)
            ELSE LET found == Member_try_from_slice(d[member_account])
                     member == set_voting_power(found.val, voting_power)
                     w == Member_serialize(member, d[member_account])
                     d1 == [d EXCEPT ![member_account] = w.buf]
                 IN IF ~found.ok THEN Return("BorshIoError", "load_member", d)
                    ELSE IF ~w.ok THEN Return("BorshIoError", "save_member", d1)
                    ELSE Return("Ok", "done", d1)

\* process_instruction: decode the instruction, then dispatch on its variant.
process_instruction(accounts, instruction_data, d, overflow_checks) ==
    LET decoded == MembershipInstruction_try_from_slice(instruction_data)
        instruction == decoded.val
    IN IF ~decoded.ok THEN Return("BorshIoError", "instruction", d)
       ELSE CASE instruction.tag = "Initialize" ->
                   process_initialize(accounts, d)
              [] instruction.tag = "RegisterMember" ->
                   process_register_member(accounts, instruction.name, instruction.is_ai,
                                           instruction.voting_power, d, overflow_checks)
              [] OTHER ->
                   process_update_voting_power(accounts, instruction.voting_power, d)

\* ------------------------------------------------------------------ inputs

\* MembershipInstruction::serialize, as a client builds instruction_data.
Initialize_data == <<0>>

RegisterMember_data(name, is_ai, voting_power) ==
    <<1>> \o u32_to_le_bytes(Len(name)) \o name
          \o <<IF is_ai THEN 1 ELSE 0>> \o to_le_bytes(voting_power)

UpdateVotingPower_data(voting_power) == <<2>> \o to_le_bytes(voting_power)

\* The voting powers the callers use: one that fits a byte, one that does not.
VotingPowers == {U64(5), U64(300)}

\* The RegisterMember instructions the callers send: a one-byte name (the
\* Member fills account M exactly), an empty name (one byte of M is left over)
\* and a two-byte name (the Member does not fit M).
RegisterMemberInstructions ==
    {RegisterMember_data(<<97>>, TRUE, U64(5)),
     RegisterMember_data(<<>>, FALSE, U64(300)),
     RegisterMember_data(<<97, 98>>, TRUE, U64(5))}

UpdateVotingPowerInstructions == {UpdateVotingPower_data(v) : v \in VotingPowers}

\* Instruction data that does not decode: empty, an unknown variant, a byte
\* left over, a truncated field, a name whose length prefix runs past the end.
MalformedInstructions == {<<>>, <<3>>, <<0, 0>>, <<2, 1>>, <<1, 5, 0, 0, 0, 97>>}

Handle(a, s) == [acct |-> a, is_signer |-> s]

Wallets == {Handle(a, s) : a \in {"A", "B"}, s \in BOOLEAN}

R_ == Handle("R", FALSE)

R2_ == Handle("R2", FALSE)

M_ == Handle("M", FALSE)

M2_ == Handle("M2", FALSE)

\* The account lists passed with Initialize: too few accounts; R with either
\* wallet, signing or not; R2 with B signing; M (an account longer than a
\* Membership) with A signing.
InitializeAccounts ==
    {<<>>, <<R_>>} \cup {<<R_, w>> : w \in Wallets}
                   \cup {<<R2_, Handle("B", TRUE)>>, <<M_, Handle("A", TRUE)>>}

\* The account lists passed with RegisterMember and UpdateVotingPower: too few
\* accounts; R with M or R itself as the member account and either wallet,
\* signing or not; M in the place of the state account.
MemberAccounts ==
    {<<>>, <<R_>>, <<R_, M_>>}
    \cup {<<R_, t, w>> : t \in {M_, R_}, w \in Wallets}
    \cup {<<M_, M_, Handle("A", s)>> : s \in BOOLEAN}

\* With R2 as the state account, signed by B: RegisterMember is sent with R as
\* the member account, UpdateVotingPower with M.
OtherRegisterAccounts == {<<R2_, R_, Handle("B", TRUE)>>}

OtherUpdateAccounts == {<<R2_, M_, Handle("B", TRUE)>>}

\* The account lists passed with instruction data that does not decode: none,
\* and R and M with either wallet signing.
MalformedAccounts == {<<>>} \cup {<<R_, M_, Handle(w, TRUE)>> : w \in {"A", "B"}}

Invocation(instruction_data, accounts) ==
    [instruction_data |-> instruction_data, accounts |-> accounts]

Invocations ==
    {Invocation(Initialize_data, l) : l \in InitializeAccounts}
    \cup {Invocation(i, l) : i \in RegisterMemberInstructions,
                             l \in MemberAccounts \cup OtherRegisterAccounts}
    \cup {Invocation(i, l) : i \in UpdateVotingPowerInstructions,
                             l \in MemberAccounts \cup OtherUpdateAccounts}
    \cup {Invocation(i, l) : i \in MalformedInstructions, l \in MalformedAccounts}

\* The instruction of an invocation, decoded.
Instruction(c) == MembershipInstruction_try_from_slice(c.instruction_data)

Tag(c) == IF Instruction(c).ok THEN Instruction(c).val.tag ELSE "Malformed"

\* The last count before u64::MAX.
NearMax == <<LIMB - 2, LIMB - 1, LIMB - 1, LIMB - 1>>

\* A RegisterMember is explored while the count it loads is below MaxCount, or
\* is one of the last two of the u64 range.
WithinBounds(c, d) ==
    (Tag(c) = "RegisterMember" /\ Len(c.accounts) >= 1
       /\ Membership_try_from_slice(d[c.accounts[1].acct]).ok)
    => LET count == Membership_try_from_slice(d[c.accounts[1].acct]).val.member_count
       IN U64Less(count, U64(MaxCount)) \/ ~U64Less(count, NearMax)

\* The callers of the two-member runs: authority A initializes R (signing or
\* not), registers the one-byte and the empty name into M and into M2, and A or
\* B updates the voting power of either.
MembersInvocations ==
    {Invocation(Initialize_data, <<R_, Handle("A", s)>>) : s \in BOOLEAN}
    \cup {Invocation(RegisterMember_data(n, FALSE, U64(5)), <<R_, m, Handle("A", TRUE)>>) :
             n \in {<<97>>, <<>>}, m \in {M_, M2_}}
    \cup {Invocation(UpdateVotingPower_data(U64(5)), <<R_, m, Handle(w, TRUE)>>) :
             m \in {M_, M2_}, w \in {"A", "B"}}

\* ----------------------------------------------------------- state machine

NoCall == Invocation(<<>>, <<>>)

NoResult == [code |-> "None", stage |-> "None"]

\* Freshly allocated accounts hold zeros.
Init ==
    /\ data = [a \in Accounts |-> Zeros(Capacity(a))]
    /\ saved = data
    /\ pc = "idle"
    /\ call = NoCall
    /\ result = NoResult
    /\ inits = [a \in Accounts |-> 0]
    /\ issued = [a \in Accounts |-> <<>>]
    /\ regOf = [a \in Accounts |-> "none"]

\* One invocation of the entrypoint, by one of the given callers:
\* process_instruction runs to its return on the accounts' data.
InvokeOf(calls) ==
    /\ pc = "idle"
    /\ \E c \in calls :
         /\ WithinBounds(c, data)
         /\ \E overflow_checks \in BOOLEAN :
              LET out == process_instruction(c.accounts, c.instruction_data, data,
                                             overflow_checks)
              IN /\ data' = out.data
                 /\ result' = [code |-> out.code, stage |-> out.stage]
         /\ call' = c
    /\ pc' = "returned"
    /\ UNCHANGED <<saved, inits, issued, regOf>>

Invoke == InvokeOf(Invocations)

\* The id a RegisterMember wrote into its member account.
WrittenId(a) == read_u64(Reader(data[a])).val

\* The entrypoint returned Ok: the account data becomes the ledger's.
Commit ==
    /\ pc = "returned"
    /\ result.code = "Ok"
    /\ saved' = data
    /\ LET a0 == call.accounts[1].acct
           a1 == call.accounts[2].acct
       IN CASE Tag(call) = "Initialize" ->
                 /\ inits' = [inits EXCEPT ![a0] = IF @ = 0 THEN 1 ELSE 2]
                 /\ issued' = [issued EXCEPT ![a0] = IF inits[a0] = 0 THEN @ ELSE <<>>]
                 /\ regOf' = [regOf EXCEPT ![a0] = "none"]
            [] Tag(call) = "RegisterMember" ->
                 /\ issued' = [issued EXCEPT ![a0] =
                                 IF inits[a0] = 2 THEN <<>> ELSE Append(@, WrittenId(a1))]
                 /\ regOf' = [regOf EXCEPT ![a1] = a0]
                 /\ UNCHANGED inits
            [] OTHER -> UNCHANGED <<inits, issued, regOf>>
    /\ pc' = "idle"
    /\ call' = NoCall
    /\ result' = NoResult
    /\ UNCHANGED data

\* The entrypoint returned an error: the runtime discards what the failed
\* invocation wrote.
Rollback ==
    /\ pc = "returned"
    /\ result.code # "Ok"
    /\ data' = saved
    /\ pc' = "idle"
    /\ call' = NoCall
    /\ result' = NoResult
    /\ UNCHANGED <<saved, inits, issued, regOf>>

Next == Invoke \/ Commit \/ Rollback

Spec == Init /\ [][Next]_vars

\* The runs with two Member accounts.
InvokeMembers == InvokeOf(MembersInvocations)

NextMembers == InvokeMembers \/ Commit \/ Rollback

SpecMembers == Init /\ [][NextMembers]_vars

\* The runs from a Membership account whose count has come to u64::MAX - 1:
\* R as authority A's registrations up to that count have left it.
InitOverflow ==
    /\ data = [a \in Accounts |->
                 IF a = "R"
                 THEN Membership_serialize([member_count |-> NearMax,
                                            authority |-> Key("A")],
                                           Zeros(Capacity(a))).buf
                 ELSE Zeros(Capacity(a))]
    /\ saved = data
    /\ pc = "idle"
    /\ call = NoCall
    /\ result = NoResult
    /\ inits = [a \in Accounts |-> IF a = "R" THEN 1 ELSE 0]
    /\ issued = [a \in Accounts |-> <<>>]
    /\ regOf = [a \in Accounts |-> "none"]

SpecOverflow == InitOverflow /\ [][NextMembers]_vars

\* ------------------------------------------------------------------ claims

\* What the claims read of an invocation that has returned.
Returned == pc = "returned"

Succeeded == Returned /\ result.code = "Ok"

Acct(i) == call.accounts[i].acct

RegistryBefore(a) == Membership_try_from_slice(saved[a])

RegistryAfter(a) == Membership_try_from_slice(data[a])

MemberBefore(a) == Member_try_from_slice(saved[a])

MemberAfter(a) == Member_try_from_slice(data[a])

\* c + 1 as a number: the u64 that holds it, or a fifth limb when c + 1 = 2^64.
PlusOne(c) ==
    IF c = U64_MAX THEN <<0, 0, 0, 0, 1>> ELSE wrapping_add_1(c)

MemberCall == Returned /\ Tag(call) \in {"RegisterMember", "UpdateVotingPower"}
                       /\ Len(call.accounts) = 3

\* C1: after N successful RegisterMember calls against one Membership account
\* with at most one Initialize of it, the account's member_count is N and the
\* ids written are 0, 1, ..., N-1 in turn.
C1_Monotonicity ==
    \A r \in Accounts :
        (inits[r] <= 1 /\ (Len(issued[r]) > 0 \/ RegistryBefore(r).ok))
        => /\ RegistryBefore(r).ok
           /\ RegistryBefore(r).val.member_count = U64(Len(issued[r]))
           /\ \A i \in 1..Len(issued[r]) : issued[r][i] = U64(i - 1)

\* Two registrations have succeeded on R since its only Initialize.
C1_Witness == pc = "idle" /\ inits["R"] = 1 /\ Len(issued["R"]) = 2

\* C2, as stated: RegisterMember or UpdateVotingPower whose account[2] did not
\* sign, or signed with a key other than the stored authority, returns
\* NotAuthorized and leaves every account's data unchanged.
C2_Original ==
    (MemberCall /\ (\/ ~call.accounts[3].is_signer
                    \/ /\ RegistryBefore(Acct(1)).ok
                       /\ Key(Acct(3)) # RegistryBefore(Acct(1)).val.authority))
    => (result.code = "NotAuthorized" /\ data = saved)

\* C2, amended: when account[0] loads as a Membership, such an invocation
\* returns NotAuthorized; when it does not load, the invocation fails with the
\* load's error before the signer is looked at; the data is unchanged in both.
C2_AuthorizationGate ==
    (MemberCall /\ (\/ ~call.accounts[3].is_signer
                    \/ ~RegistryBefore(Acct(1)).ok
                    \/ Key(Acct(3)) # RegistryBefore(Acct(1)).val.authority))
    => /\ data = saved
       /\ IF RegistryBefore(Acct(1)).ok
          THEN result.code = "NotAuthorized"
          ELSE result.code = "BorshIoError" /\ result.stage = "load_membership"

\* A wallet that signed, but is not the authority of the initialized R, was
\* turned away from RegisterMember.
C2_Witness ==
    /\ MemberCall /\ Tag(call) = "RegisterMember"
    /\ Acct(1) = "R" /\ inits["R"] >= 1
    /\ call.accounts[3].is_signer
    /\ Key(Acct(3)) # RegistryBefore("R").val.authority
    /\ result.code = "NotAuthorized"

\* C3: a Member is created, and its voting_power changed, only by an
\* invocation signed by the authority of the Membership account under which
\* the member was registered.
C3_OnlyAuthority ==
    /\ (Succeeded /\ Tag(call) = "RegisterMember")
       => /\ call.accounts[3].is_signer
          /\ Key(Acct(3)) = RegistryBefore(Acct(1)).val.authority
    /\ (Succeeded /\ Tag(call) = "UpdateVotingPower")
       => /\ regOf[Acct(2)] # "none"
          /\ call.accounts[3].is_signer
          /\ Key(Acct(3)) = RegistryBefore(regOf[Acct(2)]).val.authority

\* C4: when RegisterMember fails at the write of the Member, the membership
\* account's member_count is what it was before the invocation.
C4_AtomicPairing ==
    (Returned /\ Tag(call) = "RegisterMember" /\ result.stage = "save_member")
    => /\ result.code # "Ok"
       /\ RegistryAfter(Acct(1)).ok
       /\ RegistryAfter(Acct(1)).val.member_count
            = RegistryBefore(Acct(1)).val.member_count

\* A RegisterMember failed at the Member write after one registration had
\* succeeded, with part of the Member written.
C4_Witness ==
    /\ Returned /\ Tag(call) = "RegisterMember" /\ result.stage = "save_member"
    /\ RegistryBefore(Acct(1)).val.member_count = U64(1)
    /\ data # saved

\* C5: an invocation that returns an error leaves every account's data as it
\* was before the invocation.
C5_NoSideEffects == (Returned /\ result.code # "Ok") => data = saved

\* C6: a successful UpdateVotingPower(v) sets the Member's voting_power to v
\* and changes nothing else: id, name, is_ai and pubkey decode as before, and
\* no other account's data changes.
C6_FieldImmutability ==
    (Succeeded /\ Tag(call) = "UpdateVotingPower")
    => /\ MemberBefore(Acct(2)).ok /\ MemberAfter(Acct(2)).ok
       /\ MemberAfter(Acct(2)).val.voting_power = Instruction(call).val.voting_power
       /\ MemberAfter(Acct(2)).val.id = MemberBefore(Acct(2)).val.id
       /\ MemberAfter(Acct(2)).val.name = MemberBefore(Acct(2)).val.name
       /\ MemberAfter(Acct(2)).val.is_ai = MemberBefore(Acct(2)).val.is_ai
       /\ MemberAfter(Acct(2)).val.pubkey = MemberBefore(Acct(2)).val.pubkey
       /\ \A a \in Accounts \ {Acct(2)} : data[a] = saved[a]

\* An UpdateVotingPower changed the voting power of an AI member.
C6_Witness ==
    /\ Succeeded /\ Tag(call) = "UpdateVotingPower"
    /\ MemberBefore(Acct(2)).val.is_ai
    /\ MemberAfter(Acct(2)).val.voting_power # MemberBefore(Acct(2)).val.voting_power

\* C7: no successful invocation leaves a Membership account with a smaller
\* member_count than it had.
C7_CountNeverDecreases ==
    \A r \in Accounts :
        (Succeeded /\ RegistryBefore(r).ok /\ RegistryAfter(r).ok)
        => ~U64Less(RegistryAfter(r).val.member_count,
                    RegistryBefore(r).val.member_count)

\* C8: once a Membership account has been initialized, no successful
\* invocation leaves it with another authority.
C8_AuthorityImmutable ==
    \A r \in Accounts :
        (Succeeded /\ inits[r] >= 1 /\ RegistryBefore(r).ok /\ RegistryAfter(r).ok)
        => RegistryAfter(r).val.authority = RegistryBefore(r).val.authority

\* C9: Initialize with a signing account[1] succeeds and leaves account[0]
\* loading as {member_count: 0, authority: account[1].key}; with a non-signing
\* account[1] it returns NotAuthorized and changes nothing.
C9_Initialize ==
    (Returned /\ Tag(call) = "Initialize" /\ Len(call.accounts) >= 2)
    => IF call.accounts[2].is_signer
       THEN /\ result.code = "Ok"
            /\ RegistryAfter(Acct(1)).ok
            /\ RegistryAfter(Acct(1)).val
                 = [member_count |-> U64(0), authority |-> Key(Acct(2))]
       ELSE result.code = "NotAuthorized" /\ data = saved

\* C10: a successful RegisterMember(name, is_ai, voting_power) on a Membership
\* {member_count: c, authority: A} leaves account[1] loading as the Member
\* {id: c, name, is_ai, voting_power, pubkey: account[1].key} and account[0]
\* loading as {member_count: c + 1, authority: A}.
C10_RegisterMember ==
    (Succeeded /\ Tag(call) = "RegisterMember")
    => /\ MemberAfter(Acct(2)).ok
       /\ MemberAfter(Acct(2)).val
            = [id |-> RegistryBefore(Acct(1)).val.member_count,
               name |-> Instruction(call).val.name,
               is_ai |-> Instruction(call).val.is_ai,
               voting_power |-> Instruction(call).val.voting_power,
               pubkey |-> Key(Acct(2))]
       /\ RegistryAfter(Acct(1)).ok
       /\ RegistryAfter(Acct(1)).val
            = [member_count |-> PlusOne(RegistryBefore(Acct(1)).val.member_count),
               authority |-> RegistryBefore(Acct(1)).val.authority]

\* The id held in a member account of the ledger.
IdOf(m) == read_u64(Reader(saved[m])).val

\* C11: no two Member accounts registered under the same Membership account
\* hold the same id, whatever Initialize, RegisterMember and UpdateVotingPower
\* invocations came before.
C11_UniqueIds ==
    \A m1, m2 \in Accounts :
        (m1 # m2 /\ regOf[m1] # "none" /\ regOf[m1] = regOf[m2])
        => IdOf(m1) # IdOf(m2)

\* C12: once a successful RegisterMember has written a Member account, no later
\* successful invocation changes its id, name, is_ai or pubkey: of the stored
\* bytes, only the eight of voting_power may differ.
C12_IdentityFrozen ==
    \A m \in Accounts :
        (Succeeded /\ regOf[m] # "none")
        => /\ read_u64(Reader(data[m])).val = IdOf(m)
           /\ read_string(read_u64(Reader(data[m])).r).val
                = read_string(read_u64(Reader(saved[m])).r).val
           /\ (MemberBefore(m).ok /\ MemberAfter(m).ok)
              => /\ MemberAfter(m).val.is_ai = MemberBefore(m).val.is_ai
                 /\ MemberAfter(m).val.pubkey = MemberBefore(m).val.pubkey

\* C13: a record stored into an account at least as long as its encoding loads
\* back: the account a successful Initialize or RegisterMember wrote decodes,
\* and UpdateVotingPower signed by the authority succeeds on every Member
\* account a successful RegisterMember wrote.
C13_StoreThenLoad ==
    /\ (Succeeded /\ Tag(call) = "Initialize") => RegistryAfter(Acct(1)).ok
    /\ (Succeeded /\ Tag(call) = "RegisterMember")
       => RegistryAfter(Acct(1)).ok /\ MemberAfter(Acct(2)).ok
    /\ (MemberCall /\ Tag(call) = "UpdateVotingPower"
          /\ RegistryBefore(Acct(1)).ok
          /\ call.accounts[3].is_signer
          /\ Key(Acct(3)) = RegistryBefore(Acct(1)).val.authority
          /\ regOf[Acct(2)] # "none")
       => result.code = "Ok"

\* C14: an account that was never written loads as corrupt state:
\* RegisterMember and UpdateVotingPower on a Membership account of zeros that
\* Initialize never wrote fail loading it, and UpdateVotingPower never succeeds
\* on a Member account that RegisterMember has not written.
C14_UnwrittenBuffers ==
    /\ (MemberCall /\ inits[Acct(1)] = 0
          /\ saved[Acct(1)] = Zeros(Capacity(Acct(1))))
       => result.code = "BorshIoError" /\ result.stage = "load_membership"
    /\ (Succeeded /\ Tag(call) = "UpdateVotingPower") => regOf[Acct(2)] # "none"

\* The signer of account[2] is the authority the Membership account stores.
IsAuthority == /\ call.accounts[3].is_signer
               /\ Key(Acct(3)) = RegistryBefore(Acct(1)).val.authority

\* C15: RegisterMember and UpdateVotingPower check in a fixed order: a
\* Membership account that does not decode is a load error whoever signs; one
\* that decodes with account[2] not the signing authority is NotAuthorized
\* whatever the Member account holds; and UpdateVotingPower reports a Member
\* account that does not decode only to the authority.
C15_PreconditionOrder ==
    MemberCall
    => /\ ~RegistryBefore(Acct(1)).ok
          => result.code = "BorshIoError" /\ result.stage = "load_membership"
       /\ (RegistryBefore(Acct(1)).ok /\ ~IsAuthority)
          => result.code = "NotAuthorized"
       /\ (Tag(call) = "UpdateVotingPower" /\ RegistryBefore(Acct(1)).ok
             /\ IsAuthority /\ ~MemberBefore(Acct(2)).ok)
          => result.code = "BorshIoError" /\ result.stage = "load_member"

\* An UpdateVotingPower by someone other than the authority, on a Member
\* account that does not decode, was refused as NotAuthorized.
C15_Witness ==
    /\ MemberCall /\ Tag(call) = "UpdateVotingPower"
    /\ inits[Acct(1)] > 0 /\ RegistryBefore(Acct(1)).ok /\ ~IsAuthority
    /\ ~MemberBefore(Acct(2)).ok
    /\ result.code = "NotAuthorized"

\* What an invocation returned and left in the accounts.
Outcome == [code |-> result.code, stage |-> result.stage, data |-> data]

\* C16: instruction data that does not decode fails as a malformed instruction
\* before any account is read or written, whatever accounts come with it; data
\* that decodes runs exactly the handler its first byte selects (0 Initialize,
\* 1 RegisterMember, 2 UpdateVotingPower) with the fields it encodes.
C16_DecodeThenDispatch ==
    Returned
    => /\ call.instruction_data \in MalformedInstructions
          => /\ result.code = "BorshIoError" /\ result.stage = "instruction"
             /\ data = saved
       /\ call.instruction_data = Initialize_data
          => Outcome = process_initialize(call.accounts, saved)
       /\ \A name \in {<<>>, <<97>>, <<97, 98>>}, is_ai \in BOOLEAN, v \in VotingPowers :
             call.instruction_data = RegisterMember_data(name, is_ai, v)
             => \E overflow_checks \in BOOLEAN :
                   Outcome = process_register_member(call.accounts, name, is_ai, v,
                                                     saved, overflow_checks)
       /\ \A v \in VotingPowers :
             call.instruction_data = UpdateVotingPower_data(v)
             => Outcome = process_update_voting_power(call.accounts, v, saved)

\* Instruction data with a byte left over came with the accounts of an
\* initialized R, signed by its authority, and was refused.
C16_Witness ==
    /\ Returned /\ call.instruction_data = <<0, 0>>
    /\ Len(call.accounts) = 3 /\ inits[Acct(1)] > 0 /\ IsAuthority
    /\ result.code = "BorshIoError"

\* C17: UpdateVotingPower, successful or failed, leaves the Membership account
\* of account[0] byte for byte as it was, and a successful RegisterMember
\* changes its member_count only, never its authority, also when one account
\* is passed in more than one position.
C17_RegistryFrame ==
    /\ (Returned /\ Tag(call) = "UpdateVotingPower" /\ Len(call.accounts) >= 1)
       => data[Acct(1)] = saved[Acct(1)]
    /\ (Succeeded /\ Tag(call) = "RegisterMember")
       => /\ RegistryAfter(Acct(1)).ok
          /\ RegistryAfter(Acct(1)).val.authority
               = RegistryBefore(Acct(1)).val.authority
          /\ \A a \in Accounts \ {Acct(1), Acct(2)} : data[a] = saved[a]

\* A RegisterMember succeeded on an initialized Membership account and moved
\* its count.
C17_Witness ==
    /\ Succeeded /\ Tag(call) = "RegisterMember" /\ inits[Acct(1)] > 0
    /\ RegistryAfter(Acct(1)).val.member_count
         # RegistryBefore(Acct(1)).val.member_count

\* The write of the new Member into account[1] as the invocation found it.
MemberWrite ==
    Member_serialize([id |-> RegistryBefore(Acct(1)).val.member_count,
                      name |-> Instruction(call).val.name,
                      is_ai |-> Instruction(call).val.is_ai,
                      voting_power |-> Instruction(call).val.voting_power,
                      pubkey |-> Key(Acct(2))],
                     saved[Acct(2)])

\* C18: in RegisterMember, whenever the write of the Member succeeds the write
\* of the Membership succeeds too: the handler never stops between the two,
\* and an authorized call that comes to the writes with a Member that fits
\* account[1] returns Ok with the incremented count stored, for every length
\* of the two accounts and also when they are one account.
C18_WritesPaired ==
    (MemberCall /\ Tag(call) = "RegisterMember")
    => /\ result.stage # "save_membership"
       /\ (RegistryBefore(Acct(1)).ok /\ IsAuthority /\ result.stage # "increment"
             /\ MemberWrite.ok)
          => /\ result.code = "Ok"
             /\ RegistryAfter(Acct(1)).ok
             /\ RegistryAfter(Acct(1)).val.member_count
                  = wrapping_add_1(RegistryBefore(Acct(1)).val.member_count)

\* A RegisterMember wrote a Member into an account one byte longer than it,
\* on a Membership account that had one member.
C18_Witness ==
    /\ Succeeded /\ Tag(call) = "RegisterMember"
    /\ MemberWrite.ok /\ MemberWrite.pos < Len(saved[Acct(2)])
    /\ RegistryBefore(Acct(1)).val.member_count = U64(1)

\* C19: a successful RegisterMember leaves member_count strictly greater than
\* it found it, for every count of the u64 range, u64::MAX included: the
\* increment never wraps.
C19_StrictIncrease ==
    (Succeeded /\ Tag(call) = "RegisterMember")
    => /\ RegistryAfter(Acct(1)).ok
       /\ U64Less(RegistryBefore(Acct(1)).val.member_count,
                  RegistryAfter(Acct(1)).val.member_count)

\* The number of accounts the handler of a decoded instruction takes.
Needed == IF Tag(call) = "Initialize" THEN 2 ELSE 3

\* C20, as stated: an invocation with fewer accounts than its handler takes
\* fails with one of the four error kinds of the interface (a decode or write
\* failure, or NotAuthorized) and leaves every account's data unchanged.
C20_Original ==
    (Returned /\ Tag(call) # "Malformed" /\ Len(call.accounts) < Needed)
    => /\ result.code \in {"BorshIoError", "NotAuthorized"}
       /\ data = saved

\* C20, amended: an invocation whose instruction decodes fails with
\* NotEnoughAccountKeys, before any account is read or written, exactly when it
\* has fewer accounts than its handler takes (2 for Initialize, 3 for the other
\* two); every account's data is then unchanged.
C20_TooFewAccounts ==
    (Returned /\ Tag(call) # "Malformed")
    => IF Len(call.accounts) < Needed
       THEN /\ result.code = "NotEnoughAccountKeys" /\ result.stage = "accounts"
            /\ data = saved
       ELSE result.code # "NotEnoughAccountKeys"

\* After R was initialized and had a member, a RegisterMember with R and M
\* and no third account was refused.
C20_Witness ==
    /\ Returned /\ Tag(call) = "RegisterMember" /\ Len(call.accounts) = 2
    /\ inits[Acct(1)] > 0 /\ regOf[Acct(2)] # "none"
    /\ result.code = "NotEnoughAccountKeys"
====
